---- MODULE Spec2Model ----
(***************************************************************************)
(* Social graph of todogram: follow / follow-request / block / close-friend *)
(* edges and the denormalised per-user counters, as maintained by           *)
(* FollowService, FollowRequestsService, BlockedService,                    *)
(* CloseFriendsService and ProfileService.togglePrivacy.                    *)
(*                                                                          *)
(* The store is one record `db`.  Every service method is an operator from  *)
(* a store to [db, result]; a prisma.$transaction is one atomic operator    *)
(* (it commits all of its statements or, when a statement throws, none).    *)
(* Spec runs whole requests one after the other; the *Conc specifications   *)
(* split a request at each await that precedes its transaction.             *)
(*                                                                          *)
(* The listings read the Follower table by row id; `pager` holds that       *)
(* table as the sequence of its rows in id order, the last page call and    *)
(* the traversal a caller is in the middle of (SpecPages).                  *)
(***************************************************************************)
EXTENDS Integers, Sequences, FiniteSets, TLC

\* ---------------------------------------------------------------- bounds
NumUsers == 3        \* rows of the User table: ids 1..NumUsers
MaxOps == 3          \* requests served in one behaviour
MaxIds == 1          \* length of the id list of a bulk close-friend call
NumProcs == 2        \* requests in flight at once
MaxRows == 4         \* Follower rows inserted while pages are read
ManyRows == 101      \* Follower rows of a user with more followers than one page holds
MaxRequestRows == 2  \* FollowRequest rows created in one behaviour

Users == 1..NumUsers
Ids == 0..NumUsers   \* ids a caller may send; 0 is the id of no user
Pairs == Users \X Users
Procs == 1..NumProcs
IdLists == UNION {[1..n -> Ids] : n \in 0..MaxIds}

VARIABLES db, last, quota, active, procs, pager
vars == <<db, last, quota, active, procs, pager>>

\* ---------------------------------------------------------------- store
Zero == [u \in Users |-> 0]

EmptyDb ==
    [ follows |-> {},                               \* Follower rows <<followerId, followingId>>
      requests |-> [p \in Pairs |-> "NONE"],        \* FollowRequest status per <<requesterId, targetId>>
      blocks |-> {},                                \* Block rows <<blockerId, blockedId>>
      closeFriends |-> {},                          \* CloseFriend rows <<ownerId, friendId>>
      isPrivate |-> [u \in Users |-> FALSE],
      followersCount |-> Zero,
      followingCount |-> Zero,
      blockedCount |-> Zero,
      closeFriendsCount |-> Zero ]

Out(d, r) == [db |-> d, result |-> r, count |-> 0]

\* the same for a bulk call, which also returns the number of rows it wrote
OutCount(d, r, n) == [db |-> d, result |-> r, count |-> n]

\* prisma.user.findUnique({ where: { id } }) !== null
userExists(id) == id \in Users

\* prisma.followRequest.findUnique(...): the status, "NONE" when there is no row
requestStatus(d, requesterId, targetId) ==
    IF <<requesterId, targetId>> \in Pairs THEN d.requests[<<requesterId, targetId>>] ELSE "NONE"

\* followRequest.deleteMany({ where: { requesterId, targetId } })
deleteRequest(reqs, requesterId, targetId) ==
    [p \in Pairs |-> IF p = <<requesterId, targetId>> THEN "NONE" ELSE reqs[p]]

\* -------------------------------------------------------- FollowService
\* an upsert whose update branch leaves the status as it is
followRequestUpsert_keepStatus(d, userId, targetId) ==
    Out([d EXCEPT !.requests[<<userId, targetId>>] = IF @ = "NONE" THEN "PENDING" ELSE @],
        "request_created")

\* followRequest.upsert: update -> PENDING, create -> PENDING
followRequestUpsert(d, userId, targetId) ==
    Out([d EXCEPT !.requests[<<userId, targetId>>] = "PENDING"], "request_created")

\* a follow transaction that writes followersCount as the value it expects
\* (one more than an empty list) rather than incrementing the column
followTx_overwriteCounter(d, userId, targetId) ==
    IF <<userId, targetId>> \in d.follows
    THEN Out(d, "P2002")
    ELSE Out([d EXCEPT !.follows = @ \cup {<<userId, targetId>>},
                       !.followingCount[userId] = @ + 1,
                       !.followersCount[targetId] = 1,
                       !.requests = deleteRequest(@, userId, targetId)],
             "followed")

\* the $transaction of follow: create (unique on the pair), two increments, deleteMany
followTx(d, userId, targetId) ==
    IF <<userId, targetId>> \in d.follows
    THEN Out(d, "P2002")
    ELSE Out([d EXCEPT !.follows = @ \cup {<<userId, targetId>>},
                       !.followingCount[userId] = @ + 1,
                       !.followersCount[targetId] = @ + 1,
                       !.requests = deleteRequest(@, userId, targetId)],
             "followed")

\* what follow does once it has read target and found no Follower row
followWrite(d, userId, targetId, targetPrivate) ==
    IF targetPrivate THEN followRequestUpsert(d, userId, targetId)
    ELSE followTx(d, userId, targetId)

\* follow without the lookup of the Follower row
follow_noAlreadyCheck(d, userId, targetId) ==
    IF userId = targetId THEN Out(d, "BadRequest")
    ELSE IF ~userExists(targetId) THEN Out(d, "NotFound")
    ELSE followWrite(d, userId, targetId, d.isPrivate[targetId])

\* a follow without the check of userId against targetId
follow_noSelfCheck(d, userId, targetId) ==
    IF ~userExists(targetId) THEN Out(d, "NotFound")
    ELSE IF <<userId, targetId>> \in d.follows THEN Out(d, "already")
    ELSE followWrite(d, userId, targetId, d.isPrivate[targetId])

follow(d, userId, targetId) ==
    IF userId = targetId THEN Out(d, "BadRequest")
    ELSE IF ~userExists(targetId) THEN Out(d, "NotFound")
    ELSE IF <<userId, targetId>> \in d.follows THEN Out(d, "already")
    ELSE followWrite(d, userId, targetId, d.isPrivate[targetId])

\* an unfollow that decrements followersCount of the target and forgets followingCount
unfollowTx_oneCounter(d, userId, targetId) ==
    IF <<userId, targetId>> \notin d.follows
    THEN Out(d, "BadRequest")
    ELSE Out([d EXCEPT !.follows = @ \ {<<userId, targetId>>},
                       !.followersCount[targetId] = IF @ > 0 THEN @ - 1 ELSE @],
             "unfollowed")

\* the $transaction of unfollow: deleteMany, throw on count 0, two guarded decrements
unfollowTx(d, userId, targetId) ==
    IF <<userId, targetId>> \notin d.follows
    THEN Out(d, "BadRequest")
    ELSE Out([d EXCEPT !.follows = @ \ {<<userId, targetId>>},
                       !.followersCount[targetId] = IF @ > 0 THEN @ - 1 ELSE @,
                       !.followingCount[userId] = IF @ > 0 THEN @ - 1 ELSE @],
             "unfollowed")

unfollow(d, userId, targetId) ==
    IF userId = targetId THEN Out(d, "BadRequest") ELSE unfollowTx(d, userId, targetId)

\* ------------------------------------------------ FollowRequestsService
\* a cancel whose deleteMany has no status filter
cancelFollowRequest_anyStatus(d, viewerId, targetId) ==
    IF requestStatus(d, viewerId, targetId) # "NONE"
    THEN Out([d EXCEPT !.requests = deleteRequest(@, viewerId, targetId)], "canceled")
    ELSE Out(d, "canceled")

\* followRequest.deleteMany({ where: { requesterId, targetId, status: 'PENDING' } })
cancelFollowRequest(d, viewerId, targetId) ==
    IF requestStatus(d, viewerId, targetId) = "PENDING"
    THEN Out([d EXCEPT !.requests = deleteRequest(@, viewerId, targetId)], "canceled")
    ELSE Out(d, "canceled")

\* an accept that increments followersCount of the requester instead of the target
acceptTx_wrongCounter(d, targetId, requesterId) ==
    IF requestStatus(d, requesterId, targetId) = "NONE"
    THEN Out(d, "P2025")
    ELSE Out([d EXCEPT !.follows = @ \cup {<<requesterId, targetId>>},
                       !.followingCount[requesterId] = @ + 1,
                       !.followersCount[requesterId] = @ + 1,
                       !.requests[<<requesterId, targetId>>] = "ACCEPTED"],
             "accepted")

\* an accept whose statements run outside a transaction: when the update of
\* the request throws, the upsert and the increments before it stay
acceptTx_notAtomic(d, targetId, requesterId) ==
    LET written == [d EXCEPT !.follows = @ \cup {<<requesterId, targetId>>},
                             !.followingCount[requesterId] = @ + 1,
                             !.followersCount[targetId] = @ + 1]
    IN IF requestStatus(d, requesterId, targetId) = "NONE"
       THEN Out(written, "P2025")
       ELSE Out([written EXCEPT !.requests[<<requesterId, targetId>>] = "ACCEPTED"], "accepted")

\* the $transaction of accept: follower.upsert, two increments, followRequest.update
\* (update of a row that is gone throws P2025 and rolls everything back)
acceptTx(d, targetId, requesterId) ==
    IF requestStatus(d, requesterId, targetId) = "NONE"
    THEN Out(d, "P2025")
    ELSE Out([d EXCEPT !.follows = @ \cup {<<requesterId, targetId>>},
                       !.followingCount[requesterId] = @ + 1,
                       !.followersCount[targetId] = @ + 1,
                       !.requests[<<requesterId, targetId>>] = "ACCEPTED"],
             "accepted")

\* an accept that looks the request up and does not look at its status
acceptFollowRequest_anyStatus(d, targetId, requesterId) ==
    IF requestStatus(d, requesterId, targetId) = "NONE" THEN Out(d, "NotFound")
    ELSE acceptTx(d, targetId, requesterId)

acceptFollowRequest(d, targetId, requesterId) ==
    IF requestStatus(d, requesterId, targetId) # "PENDING" THEN Out(d, "NotFound")
    ELSE acceptTx(d, targetId, requesterId)

\* a reject that deletes the request instead of marking it
rejectWrite_deletes(d, targetId, requesterId) ==
    IF requestStatus(d, requesterId, targetId) = "NONE"
    THEN Out(d, "P2025")
    ELSE Out([d EXCEPT !.requests = deleteRequest(@, requesterId, targetId)], "rejected")

\* followRequest.update({ data: { status: 'REJECTED' } })
rejectWrite(d, targetId, requesterId) ==
    IF requestStatus(d, requesterId, targetId) = "NONE"
    THEN Out(d, "P2025")
    ELSE Out([d EXCEPT !.requests[<<requesterId, targetId>>] = "REJECTED"], "rejected")

rejectFollowRequest(d, targetId, requesterId) ==
    IF requestStatus(d, requesterId, targetId) # "PENDING" THEN Out(d, "NotFound")
    ELSE rejectWrite(d, targetId, requesterId)

\* ------------------------------------------------------- BlockedService
\* follower.deleteMany({ followerId: a, followingId: b }).count
delCount(d, a, b) == IF <<a, b>> \in d.follows THEN 1 ELSE 0

\* a block that removes the follow edges and leaves their counters alone
blockTx_noDecrement(d, ownerId, targetId) ==
    IF <<ownerId, targetId>> \in d.blocks
    THEN Out(d, "P2002")
    ELSE LET between == {<<ownerId, targetId>>, <<targetId, ownerId>>}
         IN Out([d EXCEPT !.blocks = @ \cup {<<ownerId, targetId>>},
                          !.follows = @ \ between,
                          !.blockedCount[ownerId] = @ + 1,
                          !.requests = [p \in Pairs |-> IF p \in between THEN "NONE" ELSE @[p]],
                          !.closeFriends = @ \ between],
                "blocked")

\* a block that removes only the follow edge owner -> target
blockTx_oneDirection(d, ownerId, targetId) ==
    IF <<ownerId, targetId>> \in d.blocks
    THEN Out(d, "P2002")
    ELSE LET n1 == delCount(d, ownerId, targetId)
             between == {<<ownerId, targetId>>, <<targetId, ownerId>>}
         IN Out([d EXCEPT !.blocks = @ \cup {<<ownerId, targetId>>},
                          !.follows = @ \ {<<ownerId, targetId>>},
                          !.followingCount[ownerId] = @ - n1,
                          !.followersCount[targetId] = @ - n1,
                          !.blockedCount[ownerId] = @ + 1,
                          !.requests = [p \in Pairs |-> IF p \in between THEN "NONE" ELSE @[p]],
                          !.closeFriends = @ \ between],
                "blocked")

\* a block whose insert is an upsert: an existing row is no error, and the rest
\* of the transaction runs again
blockTx_upsert(d, ownerId, targetId) ==
    LET n1 == delCount(d, ownerId, targetId)
        n2 == delCount(d, targetId, ownerId)
        between == {<<ownerId, targetId>>, <<targetId, ownerId>>}
        d1 == [d EXCEPT !.blocks = @ \cup {<<ownerId, targetId>>},
                        !.follows = @ \ between,
                        !.followingCount[ownerId] = @ - n1,
                        !.followersCount[targetId] = @ - n1]
        d2 == [d1 EXCEPT !.followingCount[targetId] = @ - n2,
                         !.followersCount[ownerId] = @ - n2,
                         !.blockedCount[ownerId] = @ + 1,
                         !.requests = [p \in Pairs |-> IF p \in between THEN "NONE" ELSE @[p]],
                         !.closeFriends = @ \ between]
    IN Out(d2, "blocked")

\* a block that also records the reverse Block row and counts it for the target
blockTx_bothWays(d, ownerId, targetId) ==
    IF <<ownerId, targetId>> \in d.blocks
    THEN Out(d, "P2002")
    ELSE LET n1 == delCount(d, ownerId, targetId)
             n2 == delCount(d, targetId, ownerId)
             between == {<<ownerId, targetId>>, <<targetId, ownerId>>}
             d1 == [d EXCEPT !.blocks = @ \cup between,
                             !.follows = @ \ between,
                             !.followingCount[ownerId] = @ - n1,
                             !.followersCount[targetId] = @ - n1]
             d2 == [d1 EXCEPT !.followingCount[targetId] = @ - n2,
                              !.followersCount[ownerId] = @ - n2,
                              !.blockedCount[ownerId] = @ + 1,
                              !.requests = [p \in Pairs |-> IF p \in between THEN "NONE" ELSE @[p]],
                              !.closeFriends = @ \ between]
         IN Out(d2, "blocked")

\* the $transaction of blockUser; a second Block row for the pair throws P2002
blockTx(d, ownerId, targetId) ==
    IF <<ownerId, targetId>> \in d.blocks
    THEN Out(d, "P2002")
    ELSE LET n1 == delCount(d, ownerId, targetId)
             n2 == delCount(d, targetId, ownerId)
             between == {<<ownerId, targetId>>, <<targetId, ownerId>>}
             d1 == [d EXCEPT !.blocks = @ \cup {<<ownerId, targetId>>},
                             !.follows = @ \ between,
                             !.followingCount[ownerId] = @ - n1,
                             !.followersCount[targetId] = @ - n1]
             d2 == [d1 EXCEPT !.followingCount[targetId] = @ - n2,
                              !.followersCount[ownerId] = @ - n2,
                              !.blockedCount[ownerId] = @ + 1,
                              !.requests = [p \in Pairs |-> IF p \in between THEN "NONE" ELSE @[p]],
                              !.closeFriends = @ \ between]
         IN Out(d2, "blocked")

\* a block whose controller lets the caller's own id through to the service
blockUser_noSelfCheck(d, ownerId, targetId) ==
    IF ~userExists(targetId) THEN Out(d, "NotFound")
    ELSE LET r == blockTx(d, ownerId, targetId)
         IN IF r.result = "P2002" THEN Out(d, "blocked") ELSE r

\* BlockedController.add + BlockedService.blockUser; the catch turns P2002 into
\* { ok: true, item: <the existing row> }
blockUser(d, ownerId, targetId) ==
    IF ownerId = targetId THEN Out(d, "BadRequest")
    ELSE IF ~userExists(targetId) THEN Out(d, "NotFound")
    ELSE LET r == blockTx(d, ownerId, targetId)
         IN IF r.result = "P2002" THEN Out(d, "blocked") ELSE r

\* an unblock whose delete tolerates a missing row (deleteMany) and decrements anyway
unblockTx_deleteMany(d, ownerId, targetId) ==
    Out([d EXCEPT !.blocks = @ \ {<<ownerId, targetId>>},
                  !.blockedCount[ownerId] = @ - 1],
        "removed")

\* the $transaction of unblockUser: block.delete (P2025 when the row is gone), decrement
unblockTx(d, ownerId, targetId) ==
    IF <<ownerId, targetId>> \notin d.blocks
    THEN Out(d, "P2025")
    ELSE Out([d EXCEPT !.blocks = @ \ {<<ownerId, targetId>>},
                       !.blockedCount[ownerId] = @ - 1],
             "removed")

\* an unblock that goes to its transaction without looking the row up
unblockUser_noLookup(d, ownerId, targetId) == unblockTx(d, ownerId, targetId)

unblockUser(d, ownerId, targetId) ==
    IF <<ownerId, targetId>> \notin d.blocks THEN Out(d, "not_removed")
    ELSE unblockTx(d, ownerId, targetId)

\* -------------------------------------------------- CloseFriendsService
Range(s) == {s[i] : i \in DOMAIN s}

\* [...new Set(friendIds)].filter((id) => id !== ownerId)
uniqueIds(ownerId, friendIds) == Range(friendIds) \ {ownerId}

\* an addMany that increments by the number of rows asked for
addCloseFriendsTx_byRequested(d, ownerId, toInsert) ==
    LET fresh == {<<ownerId, f>> : f \in toInsert} \ d.closeFriends
    IN OutCount([d EXCEPT !.closeFriends = @ \cup fresh,
                          !.closeFriendsCount[ownerId] = @ + Cardinality(toInsert)],
                "ok", Cardinality(fresh))

\* the $transaction of addMany: createMany skipDuplicates, increment by created.count
addCloseFriendsTx(d, ownerId, toInsert) ==
    LET fresh == {<<ownerId, f>> : f \in toInsert} \ d.closeFriends
    IN OutCount([d EXCEPT !.closeFriends = @ \cup fresh,
                          !.closeFriendsCount[ownerId] = @ + Cardinality(fresh)],
                "ok", Cardinality(fresh))

\* an addMany that does not filter its ids to the users that exist
addManyToCloseFriends_noExistCheck(d, ownerId, friendIds) ==
    IF Len(friendIds) = 0 THEN Out(d, "BadRequest")
    ELSE IF uniqueIds(ownerId, friendIds) = {} THEN Out(d, "BadRequest")
    ELSE addCloseFriendsTx(d, ownerId, uniqueIds(ownerId, friendIds))

addManyToCloseFriends(d, ownerId, friendIds) ==
    IF Len(friendIds) = 0 THEN Out(d, "BadRequest")
    ELSE IF uniqueIds(ownerId, friendIds) = {} THEN Out(d, "BadRequest")
    ELSE LET toInsert == {id \in uniqueIds(ownerId, friendIds) : userExists(id)}
         IN IF toInsert = {} THEN Out(d, "NotFound")
            ELSE addCloseFriendsTx(d, ownerId, toInsert)

\* a removeMany that decrements by the number of ids asked for
removeCloseFriendsTx_byRequested(d, ownerId, ids) ==
    LET gone == {<<ownerId, f>> : f \in ids} \cap d.closeFriends
    IN OutCount([d EXCEPT !.closeFriends = @ \ gone,
                          !.closeFriendsCount[ownerId] = @ - Cardinality(ids)],
                "ok", Cardinality(gone))

\* a removeMany that deletes the rows and leaves the counter
removeCloseFriendsTx_noDecrement(d, ownerId, ids) ==
    LET gone == {<<ownerId, f>> : f \in ids} \cap d.closeFriends
    IN OutCount([d EXCEPT !.closeFriends = @ \ gone], "ok", Cardinality(gone))

\* the $transaction of removeMany: deleteMany, decrement by del.count
removeCloseFriendsTx(d, ownerId, ids) ==
    LET gone == {<<ownerId, f>> : f \in ids} \cap d.closeFriends
    IN OutCount([d EXCEPT !.closeFriends = @ \ gone,
                          !.closeFriendsCount[ownerId] = @ - Cardinality(gone)],
                "ok", Cardinality(gone))

removeManyFromCloseFriends(d, ownerId, friendIds) ==
    IF Len(friendIds) = 0 THEN Out(d, "BadRequest")
    ELSE IF uniqueIds(ownerId, friendIds) = {} THEN Out(d, "ok")
    ELSE removeCloseFriendsTx(d, ownerId, uniqueIds(ownerId, friendIds))

\* ------------------------------------------------------- ProfileService
\* user.update({ data: { isPrivate: value } })
privacyWrite(d, userId, value) == Out([d EXCEPT !.isPrivate[userId] = value], "toggled")

togglePrivacy(d, userId) == privacyWrite(d, userId, ~d.isPrivate[userId])

\* the users of a set as a list
listOf(S) == SelectSeq([i \in 1..NumUsers |-> i], LAMBDA x : x \in S)

\* ProfileService.getMyCloseFriends with no cursor and the default limit:
\* follower.findMany({ where: { followerId: viewerId } }), one item per row with
\* the id of its following user; the CloseFriend table only feeds isCloseFriend
getMyCloseFriends(d, viewerId) ==
    LET items == {e[2] : e \in {f \in d.follows : f[1] = viewerId}}
    IN [db |-> d, result |-> "ok", count |-> Cardinality(items), items |-> listOf(items)]

\* -------------------------------------------------------- PublicService
\* the number of Follower rows with followerId = u, with followingId = u
followingOf(d, u) == Cardinality({e \in d.follows : e[1] = u})
followersOf(d, u) == Cardinality({e \in d.follows : e[2] = u})

DefaultLimit == 20
MaxTake == 100

Min(a, b) == IF a < b THEN a ELSE b
Max(a, b) == IF a > b THEN a ELSE b

\* Math.min(Math.max(limit || 20, 1), 100)
clampTake(limit) == Min(Max(IF limit = 0 THEN DefaultLimit ELSE limit, 1), MaxTake)

\* the first page of the followers of userId, asked by viewerId with no cursor
\* and no limit: the number of items it returns
getFollowersOfUser(d, viewerId, userId) ==
    IF ~userExists(userId) THEN Out(d, "NotFound")
    ELSE IF d.isPrivate[userId] THEN Out(d, "Forbidden")
    ELSE OutCount(d, "ok", Min(clampTake(DefaultLimit), followersOf(d, userId)))

\* the same for the users userId follows
getFollowingOfUser(d, viewerId, userId) ==
    IF ~userExists(userId) THEN Out(d, "NotFound")
    ELSE IF d.isPrivate[userId] THEN Out(d, "Forbidden")
    ELSE OutCount(d, "ok", Min(clampTake(DefaultLimit), followingOf(d, userId)))

\* the gate of the publications of targetId: "empty" is the page
\* { items: [], nextCursor: null } returned to a blocked viewer, "ok" a page
\* of posts (the Post table is not part of this model)
getUserPublications(d, viewerId, targetId) ==
    IF ~userExists(targetId) THEN Out(d, "NotFound")
    ELSE IF <<targetId, viewerId>> \in d.blocks THEN Out(d, "empty")
    ELSE IF viewerId # targetId /\ d.isPrivate[targetId] THEN Out(d, "Forbidden")
    ELSE Out(d, "ok")

\* ------------------------------------------------------ pages of rows
\* pager.rows[i] is the followingId of the Follower row with id i: ids are
\* handed out in sequence by the table (autoincrement).  Who the follower is
\* plays no part in which rows a page holds.
matching(rows, userId) == {i \in 1..Len(rows) : rows[i] = userId}

\* the ids of the rows of userId that are at most from, largest first:
\* where: { followingId: userId }, orderBy: { id: 'desc' }
matchingDesc(rows, userId, from) ==
    LET keep(i) == i <= from /\ rows[i] = userId
        asc == SelectSeq([i \in 1..Len(rows) |-> i], keep)
    IN [n \in 1..Len(asc) |-> asc[Len(asc) + 1 - n]]

\* the table holds a row with this id; a deleted row leaves its id unused
\* (autoincrement), which the table shows as followingId 0
rowExists(rows, id) == id \in 1..Len(rows) /\ rows[id] # 0

\* the first k elements: take k
firstRows(seq, k) == SubSeq(seq, 1, Min(k, Len(seq)))

\* drop the first n elements: skip n
dropFirst(seq, n) == SubSeq(seq, n + 1, Len(seq))

\* a findMany that starts at the cursor row instead of after it
findMany_noSkip(rows, userId, cursor, take) ==
    IF cursor = 0 THEN firstRows(matchingDesc(rows, userId, Len(rows)), take)
    ELSE IF ~rowExists(rows, cursor) THEN <<>>
    ELSE firstRows(matchingDesc(rows, userId, cursor), take)

\* follower.findMany({ where, orderBy: { id: 'desc' }, cursor: cursor ? { id:
\* cursor } : undefined, skip: cursor ? 1 : 0, take }): the rows of the filter
\* from the cursor row down, without the first of them; no cursor row, no rows
findMany(rows, userId, cursor, take) ==
    IF cursor = 0 THEN firstRows(matchingDesc(rows, userId, Len(rows)), take)
    ELSE IF ~rowExists(rows, cursor) THEN <<>>
    ELSE firstRows(dropFirst(matchingDesc(rows, userId, cursor), 1), take)

Page(items, nextCursor, result) == [items |-> items, nextCursor |-> nextCursor, result |-> result]

\* PublicService.getFollowersOfUser, one page; nextCursor 0 is null
getFollowersOfUserPage(d, rows, viewerId, userId, cursor, limit) ==
    IF ~userExists(userId) THEN Page(<<>>, 0, "NotFound")
    ELSE IF d.isPrivate[userId] THEN Page(<<>>, 0, "Forbidden")
    ELSE LET take == clampTake(limit)
             found == findMany(rows, userId, cursor, take)
         IN Page(found, IF Len(found) = take THEN found[Len(found)] ELSE 0, "ok")

\* a getFollowers that reads limit rows and takes a full page as a sign of more
getFollowers_exactFill(rows, meId, cursor, limit) ==
    LET found == findMany(rows, meId, cursor, limit)
    IN Page(found, IF found # <<>> /\ Len(found) = limit THEN found[Len(found)] ELSE 0, "ok")

\* RelationsService.getFollowers, one page: limit + 1 rows are read, limit of
\* them returned; slice[slice.length - 1].id of an empty slice is a TypeError
getFollowers(rows, meId, cursor, limit) ==
    LET found == findMany(rows, meId, cursor, limit + 1)
        hasMore == Len(found) > limit
        slice == firstRows(found, limit)
    IN IF hasMore /\ slice = <<>> THEN Page(<<>>, 0, "TypeError")
       ELSE Page(slice, IF hasMore THEN slice[Len(slice)] ELSE 0, "ok")

\* the page that operation op returns
pageOf(op, d, rows, viewerId, userId, cursor, limit) ==
    IF op = "getFollowers" THEN getFollowers(rows, viewerId, cursor, limit)
    ELSE getFollowersOfUserPage(d, rows, viewerId, userId, cursor, limit)

\* ------------------------------------------ the FollowRequest table by id
\* The table as the list of its rows' <<requesterId, targetId>>, the index
\* being the row id; NoRow where the row has been deleted (ids are not reused).
NoRow == <<0, 0>>

\* the id of the row of a pair, 0 when it has none (the pair is unique)
requestId(table, e) ==
    IF \E i \in 1..Len(table) : table[i] = e
    THEN CHOOSE i \in 1..Len(table) : table[i] = e
    ELSE 0

\* What the writes that took the store from d0 to d1 do to the rows: a
\* deleteMany / delete removes the row, an update (the update arm of upsert
\* included) keeps it under its id, a create appends a row with the next id.
requestRows(table, d0, d1) ==
    LET kept == [i \in 1..Len(table) |->
                   IF table[i] # NoRow /\ d1.requests[table[i]] = "NONE" THEN NoRow ELSE table[i]]
        created == {e \in Pairs : d0.requests[e] = "NONE" /\ d1.requests[e] # "NONE"}
    IN IF created = {} THEN kept ELSE Append(kept, CHOOSE e \in created : TRUE)

\* followRequest.findMany({ where: { <side>: userId, status: 'PENDING' },
\* orderBy: { id: 'desc' } }), side 1 being requesterId and side 2 targetId
pendingDesc(d, table, side, userId) ==
    LET keep(i) == /\ table[i] # NoRow
                   /\ table[i][side] = userId
                   /\ d.requests[table[i]] = "PENDING"
        asc == SelectSeq([i \in 1..Len(table) |-> i], keep)
    IN [n \in 1..Len(asc) |-> asc[Len(asc) + 1 - n]]

\* a listing of every request addressed to the user, whatever its status
listIncomingFollowRequests_anyStatus(d, table, userId) ==
    LET all == SelectSeq([i \in 1..Len(table) |-> i],
                         LAMBDA i : table[i] # NoRow /\ table[i][2] = userId)
    IN [db |-> d, result |-> "ok", count |-> Len(all), items |-> all]

\* FollowRequestsService.listIncomingFollowRequests, the first page with the
\* default limit: the ids of the items
listIncomingFollowRequests(d, table, userId) ==
    LET items == firstRows(pendingDesc(d, table, 2, userId), clampTake(DefaultLimit))
    IN [db |-> d, result |-> "ok", count |-> Len(items), items |-> items]

\* FollowRequestsService.listOutgoingFollowRequests, the same by requesterId
listOutgoingFollowRequests(d, table, userId) ==
    LET items == firstRows(pendingDesc(d, table, 1, userId), clampTake(DefaultLimit))
    IN [db |-> d, result |-> "ok", count |-> Len(items), items |-> items]

\* the last page call, and the traversal in progress
NoCall == [op |-> "none", viewer |-> 0, user |-> 0, cursor |-> 0, limit |-> 0,
           rows |-> <<>>, page |-> Page(<<>>, 0, "none")]
NoTraversal == [state |-> "idle", op |-> "none", viewer |-> 0, user |-> 0, limit |-> 0,
                start |-> {}, seen |-> <<>>, next |-> 0, pages |-> 0]
NoPager == [rows |-> <<>>, requests |-> <<>>, call |-> NoCall, trav |-> NoTraversal]

\* ------------------------------------------------- requests, one at a time
\* a request in flight: where it is suspended and what it has read so far
Idle == [pc |-> "idle", actor |-> 0, target |-> 0, flag |-> FALSE]

\* the last request that returned or threw: the call, its outcome and the store
\* as the handler's last step found it
Call(op, actor, target, ids, result, pre) ==
    [op |-> op, actor |-> actor, target |-> target, ids |-> ids, result |-> result,
     count |-> 0, pre |-> pre]

\* The graph is empty and every counter is 0 (the column defaults); isPrivate is
\* whatever its owner last toggled it to (a user who sends no request has not
\* toggled it).
InitDb(a) == {[EmptyDb EXCEPT !.isPrivate = f] :
                 f \in {g \in [Users -> BOOLEAN] : \A u \in Users \ a : ~g[u]}}

\* the users who send requests when requests never run out (quota = -1); the
\* other rows of the User table are bystanders
Callers == {1, 2}

InitWith(q, a) ==
    /\ db \in InitDb(a)
    /\ last = Call("none", 0, 0, <<>>, "none", db)
    /\ quota = q
    /\ active = a
    /\ procs = [p \in Procs |-> Idle]
    /\ pager = NoPager

Init == InitWith(-1, Callers)

Targets == active \cup {0}

Spend == quota' = IF quota > 0 THEN quota - 1 ELSE quota

\* a whole request: the handler runs from its first line to its return or throw
Answer(op, actor, target, ids, r) ==
    /\ quota # 0
    /\ db' = r.db
    /\ last' = [Call(op, actor, target, ids, r.result, db) EXCEPT !.count = r.count]
    /\ Spend
    /\ UNCHANGED <<active, procs>>

Serve(op, actor, target, ids, r) == Answer(op, actor, target, ids, r) /\ UNCHANGED pager

Follow(u, t) == Serve("follow", u, t, <<>>, follow(db, u, t))
Unfollow(u, t) == Serve("unfollow", u, t, <<>>, unfollow(db, u, t))
Cancel(u, t) == Serve("cancel", u, t, <<>>, cancelFollowRequest(db, u, t))
Accept(u, t) == Serve("accept", u, t, <<>>, acceptFollowRequest(db, u, t))
Reject(u, t) == Serve("reject", u, t, <<>>, rejectFollowRequest(db, u, t))
Block(u, t) == Serve("block", u, t, <<>>, blockUser(db, u, t))
Unblock(u, t) == Serve("unblock", u, t, <<>>, unblockUser(db, u, t))
TogglePrivacy(u) == Serve("togglePrivacy", u, 0, <<>>, togglePrivacy(db, u))
AddCloseFriends(u, ids) == Serve("addCloseFriends", u, 0, ids, addManyToCloseFriends(db, u, ids))
RemoveCloseFriends(u, ids) == Serve("removeCloseFriends", u, 0, ids, removeManyFromCloseFriends(db, u, ids))

ListFollowers(u, t) == Serve("listFollowers", u, t, <<>>, getFollowersOfUser(db, u, t))
ListFollowing(u, t) == Serve("listFollowing", u, t, <<>>, getFollowingOfUser(db, u, t))
ListPublications(u, t) == Serve("listPublications", u, t, <<>>, getUserPublications(db, u, t))

Next ==
    \/ \E u \in active, t \in Targets : Follow(u, t)
    \/ \E u \in active, t \in Targets : Unfollow(u, t)
    \/ \E u \in active, t \in Targets : Cancel(u, t)
    \/ \E u \in active, t \in Targets : Accept(u, t)
    \/ \E u \in active, t \in Targets : Reject(u, t)
    \/ \E u \in active, t \in Targets : Block(u, t)
    \/ \E u \in active, t \in Targets : Unblock(u, t)
    \/ \E u \in active : TogglePrivacy(u)

Spec == Init /\ [][Next]_vars

\* GET profile/close-friends; last.ids holds the ids of the items returned
ListCloseFriends(u) ==
    LET r == getMyCloseFriends(db, u)
    IN Serve("listCloseFriends", u, 0, r.items, r)

\* the close-friends list of a caller who follows and picks close friends
NextCloseList ==
    \/ \E u \in active, t \in Targets : Follow(u, t)
    \/ \E u \in active, t \in Targets : AddCloseFriends(u, <<t>>)
    \/ \E u \in active : ListCloseFriends(u)

SpecCloseList == InitWith(MaxOps, Callers) /\ [][NextCloseList]_vars

\* follow, unfollow, block and close friends of two callers, with every id as
\* the target: a user who sends nothing is followed, requested and blocked too
NextFrame ==
    \/ \E u \in active, t \in Ids : Follow(u, t)
    \/ \E u \in active, t \in Ids : Unfollow(u, t)
    \/ \E u \in active, t \in Ids : Block(u, t)
    \/ \E u \in active, t \in active : AddCloseFriends(u, <<t>>)

SpecFrame == InitWith(MaxOps, Callers) /\ [][NextFrame]_vars

\* a whole request, with the FollowRequest table kept by row id; the table is
\* followed up to MaxRequestRows ids
ServeRequests(op, actor, target, ids, r) ==
    LET table == requestRows(pager.requests, db, r.db)
    IN /\ Len(table) <= MaxRequestRows
       /\ Answer(op, actor, target, ids, r)
       /\ pager' = [pager EXCEPT !.requests = table]

\* GET follow-requests/incoming and outgoing; last.ids holds the ids returned
ListIncoming(u) ==
    LET r == listIncomingFollowRequests(db, pager.requests, u)
    IN ServeRequests("listIncoming", u, 0, r.items, r)
ListOutgoing(u) ==
    LET r == listOutgoingFollowRequests(db, pager.requests, u)
    IN ServeRequests("listOutgoing", u, 0, r.items, r)

\* the life of follow requests from one caller to another, and the two listings
NextRequests ==
    \/ \E u \in active : \E t \in active \ {u} : ServeRequests("follow", u, t, <<>>, follow(db, u, t))
    \/ \E u \in active : \E t \in active \ {u} : ServeRequests("cancel", u, t, <<>>, cancelFollowRequest(db, u, t))
    \/ \E u \in active : \E t \in active \ {u} : ServeRequests("accept", u, t, <<>>, acceptFollowRequest(db, u, t))
    \/ \E u \in active : \E t \in active \ {u} : ServeRequests("reject", u, t, <<>>, rejectFollowRequest(db, u, t))
    \/ \E u \in active : \E t \in active \ {u} : ServeRequests("block", u, t, <<>>, blockUser(db, u, t))
    \/ \E u \in active : \E t \in active \ {u} : ServeRequests("unfollow", u, t, <<>>, unfollow(db, u, t))
    \/ \E u \in active : ServeRequests("togglePrivacy", u, 0, <<>>, togglePrivacy(db, u))
    \/ \E u \in active : ListIncoming(u)
    \/ \E u \in active : ListOutgoing(u)

SpecRequests == InitWith(-1, Callers) /\ [][NextRequests]_vars

\* ------------------------------------------- the listings of another user
NextView ==
    \/ \E u \in active, t \in Targets : Follow(u, t)
    \/ \E u \in active, t \in Targets : Block(u, t)
    \/ \E u \in active : TogglePrivacy(u)
    \/ \E u \in active, t \in Targets : ListFollowers(u, t)
    \/ \E u \in active, t \in Targets : ListFollowing(u, t)
    \/ \E u \in active, t \in Targets : ListPublications(u, t)

SpecView == InitWith(MaxOps, Callers) /\ [][NextView]_vars

\* ------------------------------------------------- pages of followers
\* the limits and cursors a caller sends; cursor 0 is no cursor.  A user's own
\* list is read with getFollowers, another user's with getFollowersOfUser.
Limits == {-1, 0, 1, 2, MaxTake, MaxTake + 1}
Cursors == 0..(MaxRows + 1)
ListOps == {"getFollowersOfUser", "getFollowers"}

\* the Follower table when the first page is asked for: empty, or holding the
\* ManyRows followers of user 1
InitPages ==
    /\ db \in InitDb(Callers)
    /\ last = Call("none", 0, 0, <<>>, "none", db)
    /\ quota = -1
    /\ active = Callers
    /\ procs = [p \in Procs |-> Idle]
    /\ pager \in {NoPager, [NoPager EXCEPT !.rows = [i \in 1..ManyRows |-> 1]]}

\* follower.create by a follow of t: the row gets the next id
InsertRow(t) ==
    /\ Len(pager.rows) < MaxRows
    /\ pager' = [pager EXCEPT !.rows = Append(@, t)]
    /\ UNCHANGED <<db, last, quota, active, procs>>

PageCall(op, v, u, c, l) ==
    [op |-> op, viewer |-> v, user |-> u, cursor |-> c, limit |-> l, rows |-> pager.rows,
     page |-> pageOf(op, db, pager.rows, v, u, c, l)]

\* one page, asked with any cursor by a caller who has asked for none yet
ListPage(op, v, u, c, l) ==
    /\ pager.call.op = "none"
    /\ pager' = [pager EXCEPT !.call = PageCall(op, v, u, c, l)]
    /\ UNCHANGED <<db, last, quota, active, procs>>

\* what a traversal becomes with the page of call
Traverse(trav, call) ==
    [trav EXCEPT !.state = IF call.page.result # "ok" THEN "failed"
                           ELSE IF call.page.nextCursor = 0 THEN "done" ELSE "open",
                 !.seen = @ \o call.page.items,
                 !.next = call.page.nextCursor,
                 !.pages = @ + 1]

\* the first page of a traversal: no cursor
TraversalStart(op, v, u, l) ==
    /\ pager.call.op = "none"
    /\ LET call == PageCall(op, v, u, 0, l)
           trav == [NoTraversal EXCEPT !.op = op, !.viewer = v, !.user = u, !.limit = l,
                                       !.start = matching(pager.rows, u)]
       IN pager' = [pager EXCEPT !.call = call, !.trav = Traverse(trav, call)]
    /\ UNCHANGED <<db, last, quota, active, procs>>

\* the next page: the cursor is the nextCursor of the page before
TraversalNext ==
    /\ pager.trav.state = "open"
    /\ LET t == pager.trav
           call == PageCall(t.op, t.viewer, t.user, t.next, t.limit)
       IN pager' = [pager EXCEPT !.call = call, !.trav = Traverse(t, call)]
    /\ UNCHANGED <<db, last, quota, active, procs>>

NextPages ==
    \/ \E t \in Callers : InsertRow(t)
    \/ \E op \in ListOps, v \in active, u \in active, c \in Cursors \cup {Len(pager.rows)}, l \in Limits :
          (op = "getFollowers" <=> u = v) /\ ListPage(op, v, u, c, l)
    \/ \E op \in ListOps, v \in active, u \in active, l \in Limits :
          (op = "getFollowers" <=> u = v) /\ TraversalStart(op, v, u, l)
    \/ TraversalNext

SpecPages == InitPages /\ [][NextPages]_vars

\* follower.deleteMany / follower.delete by an unfollow or a block: the row
\* with this id is gone
DeleteRow(id) ==
    /\ rowExists(pager.rows, id)
    /\ pager' = [pager EXCEPT !.rows[id] = 0]
    /\ UNCHANGED <<db, last, quota, active, procs>>

\* traversals of a table whose rows come and go between the pages
NextPagesDelete ==
    \/ \E t \in Callers : InsertRow(t)
    \/ \E id \in 1..MaxRows : DeleteRow(id)
    \/ \E op \in ListOps, v \in active, u \in active, l \in Limits :
          (op = "getFollowers" <=> u = v) /\ TraversalStart(op, v, u, l)
    \/ TraversalNext

SpecPagesDelete == InitWith(-1, Callers) /\ [][NextPagesDelete]_vars

\* traversals of a table that does not change once the first page is asked for
NextPagesStill ==
    \/ \E t \in Callers : pager.call.op = "none" /\ InsertRow(t)
    \/ \E op \in ListOps, v \in active, u \in active, l \in Limits :
          (op = "getFollowers" <=> u = v) /\ TraversalStart(op, v, u, l)
    \/ TraversalNext

SpecPagesStill == InitPages /\ [][NextPagesStill]_vars

\* ------------------------------------------------- close friends, one at a time
\* body.ids with a repeated id, a missing user and the owner: [x, 0, x, owner]
RepeatedIdLists(ownerId) == {<<x, 0, x, ownerId>> : x \in Users \ {ownerId}}

NextCF ==
    \/ \E u \in active : \E ids \in IdLists \cup RepeatedIdLists(u) : AddCloseFriends(u, ids)
    \/ \E u \in active, ids \in IdLists : RemoveCloseFriends(u, ids)
    \/ \E u \in active, t \in Targets : Block(u, t)
    \/ \E u \in active, t \in Targets : Unblock(u, t)

SpecCF == InitWith(MaxOps, Callers) /\ [][NextCF]_vars

\* ------------------------------------------------- requests in flight together
\* Each await of a handler that precedes its transaction is a step of its own;
\* the transaction (or the single write) is another.
Suspend(p, pc, u, t, flag) ==
    /\ procs' = [procs EXCEPT ![p] = [pc |-> pc, actor |-> u, target |-> t, flag |-> flag]]
    /\ UNCHANGED <<db, last, pager>>

\* the request of p returns or throws
Finish(p, op, u, t, r) ==
    /\ db' = r.db
    /\ last' = Call(op, u, t, <<>>, r.result, db)
    /\ procs' = [procs EXCEPT ![p] = Idle]
    /\ UNCHANGED pager

Begin(p) == procs[p].pc = "idle" /\ quota # 0 /\ Spend /\ UNCHANGED active
Resume(p, pc) == procs[p].pc = pc /\ UNCHANGED <<quota, active>>

\* follow, lines 9-15: the self check and the lookup of target
FollowStart(p, u, t) ==
    /\ Begin(p)
    /\ IF u = t THEN Finish(p, "follow", u, t, Out(db, "BadRequest"))
       ELSE IF ~userExists(t) THEN Finish(p, "follow", u, t, Out(db, "NotFound"))
       ELSE Suspend(p, "follow_already", u, t, db.isPrivate[t])

\* follow, lines 17-20: the lookup of the Follower row
FollowReadAlready(p) ==
    /\ Resume(p, "follow_already")
    /\ LET c == procs[p]
       IN IF <<c.actor, c.target>> \in db.follows
          THEN Finish(p, "follow", c.actor, c.target, Out(db, "already"))
          ELSE Suspend(p, "follow_write", c.actor, c.target, c.flag)

\* follow, lines 22-42: the upsert of the request, or the transaction
FollowWrite(p) ==
    /\ Resume(p, "follow_write")
    /\ LET c == procs[p]
       IN Finish(p, "follow", c.actor, c.target, followWrite(db, c.actor, c.target, c.flag))

\* acceptFollowRequest, lines 16-20
AcceptRead(p, u, t) ==
    /\ Begin(p)
    /\ IF requestStatus(db, t, u) # "PENDING"
       THEN Finish(p, "accept", u, t, Out(db, "NotFound"))
       ELSE Suspend(p, "accept_tx", u, t, FALSE)

\* acceptFollowRequest, lines 22-38
AcceptTx(p) ==
    /\ Resume(p, "accept_tx")
    /\ LET c == procs[p]
       IN Finish(p, "accept", c.actor, c.target, acceptTx(db, c.actor, c.target))

\* blockUser, lines 10-14 (after the controller's self check)
BlockStart(p, u, t) ==
    /\ Begin(p)
    /\ IF u = t THEN Finish(p, "block", u, t, Out(db, "BadRequest"))
       ELSE IF ~userExists(t) THEN Finish(p, "block", u, t, Out(db, "NotFound"))
       ELSE Suspend(p, "block_tx", u, t, FALSE)

\* blockUser, lines 17-86: the transaction, and the catch of P2002
BlockTx(p) ==
    /\ Resume(p, "block_tx")
    /\ LET c == procs[p]
           r == blockTx(db, c.actor, c.target)
       IN IF r.result = "P2002"
          THEN Suspend(p, "block_catch", c.actor, c.target, FALSE)
          ELSE Finish(p, "block", c.actor, c.target, r)

\* blockUser, lines 87-101: the lookup of the row that made the insert fail
BlockCatch(p) ==
    /\ Resume(p, "block_catch")
    /\ LET c == procs[p]
       IN Finish(p, "block", c.actor, c.target,
                 Out(db, IF <<c.actor, c.target>> \in db.blocks THEN "blocked" ELSE "blocked_null"))

\* unblockUser, lines 108-113
UnblockRead(p, u, t) ==
    /\ Begin(p)
    /\ IF <<u, t>> \notin db.blocks
       THEN Finish(p, "unblock", u, t, Out(db, "not_removed"))
       ELSE Suspend(p, "unblock_tx", u, t, FALSE)

\* unblockUser, lines 115-120
UnblockTx(p) ==
    /\ Resume(p, "unblock_tx")
    /\ LET c == procs[p]
       IN Finish(p, "unblock", c.actor, c.target, unblockTx(db, c.actor, c.target))

\* togglePrivacy, lines 76-80: the read of isPrivate
ToggleRead(p, u) ==
    /\ Begin(p)
    /\ Suspend(p, "toggle_write", u, 0, db.isPrivate[u])

\* togglePrivacy, lines 82-88: the write of the negation of what was read
ToggleWrite(p) ==
    /\ Resume(p, "toggle_write")
    /\ LET c == procs[p]
       IN Finish(p, "togglePrivacy", c.actor, 0, privacyWrite(db, c.actor, ~c.flag))

AllIdle == \A p \in Procs : procs[p].pc = "idle"

NextBlockConc ==
    \/ \E p \in Procs, u \in active, t \in Targets : BlockStart(p, u, t)
    \/ \E p \in Procs : BlockTx(p)
    \/ \E p \in Procs : BlockCatch(p)
    \/ \E p \in Procs, u \in active, t \in Targets : UnblockRead(p, u, t)
    \/ \E p \in Procs : UnblockTx(p)

SpecBlockConc == InitWith(-1, Callers) /\ [][NextBlockConc]_vars

NextConc ==
    \/ \E p \in Procs, u \in active, t \in Targets : FollowStart(p, u, t)
    \/ \E p \in Procs : FollowReadAlready(p)
    \/ \E p \in Procs : FollowWrite(p)
    \/ \E p \in Procs, u \in active, t \in Targets : AcceptRead(p, u, t)
    \/ \E p \in Procs : AcceptTx(p)
    \/ \E u \in active, t \in Targets : Unfollow(u, t)
    \/ \E u \in active : TogglePrivacy(u)

SpecConc == InitWith(MaxOps, Callers) /\ [][NextConc]_vars

\* follow, unfollow, accept, block, unblock and the close-friends calls, with
\* the requests that await between a read and a write in flight together; the
\* close-friends calls carry one id: the owner, another caller or no user
NextAllConc ==
    \/ \E p \in Procs, u \in active, t \in Targets : FollowStart(p, u, t)
    \/ \E p \in Procs : FollowReadAlready(p)
    \/ \E p \in Procs : FollowWrite(p)
    \/ \E p \in Procs, u \in active, t \in Targets : AcceptRead(p, u, t)
    \/ \E p \in Procs : AcceptTx(p)
    \/ \E p \in Procs, u \in active, t \in Targets : BlockStart(p, u, t)
    \/ \E p \in Procs : BlockTx(p)
    \/ \E p \in Procs : BlockCatch(p)
    \/ \E p \in Procs, u \in active, t \in Targets : UnblockRead(p, u, t)
    \/ \E p \in Procs : UnblockTx(p)
    \/ \E u \in active, t \in Targets : Unfollow(u, t)
    \/ \E u \in active, t \in Targets : AddCloseFriends(u, <<t>>)
    \/ \E u \in active, t \in Targets : RemoveCloseFriends(u, <<t>>)

SpecAllConc == InitWith(MaxOps, Callers) /\ [][NextAllConc]_vars

\* follow requests only, in flight together
NextFollowConc ==
    \/ \E p \in Procs, u \in active, t \in Targets : FollowStart(p, u, t)
    \/ \E p \in Procs : FollowReadAlready(p)
    \/ \E p \in Procs : FollowWrite(p)

SpecFollowConc == InitWith(MaxOps, Callers) /\ [][NextFollowConc]_vars

\* every client has one request in flight at a time: process p serves the
\* requests of user p, so requests in flight together are on different pairs;
\* the target is any id, a user who sends nothing included
NextDisjoint ==
    \/ \E p \in Procs \cap active, t \in Ids : FollowStart(p, p, t)
    \/ \E p \in Procs : FollowReadAlready(p)
    \/ \E p \in Procs : FollowWrite(p)

SpecDisjoint == InitWith(MaxOps, Procs \cap Users) /\ [][NextDisjoint]_vars

\* follow and togglePrivacy, in flight together
NextPrivacyRace ==
    \/ \E p \in Procs, u \in active, t \in Targets : FollowStart(p, u, t)
    \/ \E p \in Procs : FollowReadAlready(p)
    \/ \E p \in Procs : FollowWrite(p)
    \/ \E p \in Procs, u \in active : ToggleRead(p, u)
    \/ \E p \in Procs : ToggleWrite(p)

SpecPrivacyRace == InitWith(MaxOps, Callers) /\ [][NextPrivacyRace]_vars

\* ================================================================ properties
blockedBy(d, u) == Cardinality({e \in d.blocks : e[1] = u})
closeFriendsOf(d, u) == Cardinality({e \in d.closeFriends : e[1] = u})

\* the store d with the counters of d0: what is left to compare are the edges
sameCounters(d, d0) ==
    /\ d.followersCount = d0.followersCount
    /\ d.followingCount = d0.followingCount
    /\ d.blockedCount = d0.blockedCount
    /\ d.closeFriendsCount = d0.closeFriendsCount

\* C1: with requests served one after the other (follow, unfollow, accept,
\* reject, cancel, block, unblock, togglePrivacy), followingCount(u) is the
\* number of Follower rows with followerId = u and followersCount(u) the
\* number with followingId = u, for every user u.
C1_FollowCountersMatchEdges ==
    \A u \in Users :
        /\ db.followingCount[u] = followingOf(db, u)
        /\ db.followersCount[u] = followersOf(db, u)

\* a mutual follow, one side of it created by accepting a request
C1_Witness ==
    /\ last.op = "accept" /\ last.result = "accepted"
    /\ db.follows = {<<1, 2>>, <<2, 1>>}
    /\ db.followersCount[1] = 1 /\ db.followingCount[1] = 1

\* C2: no Follower row joins two users while a Block row exists between them,
\* in either direction.
C2_NoFollowAcrossBlock ==
    \A a, b \in Users :
        <<a, b>> \in db.blocks => <<a, b>> \notin db.follows /\ <<b, a>> \notin db.follows

\* C3: with AddCloseFriends, RemoveCloseFriends and block served one after the
\* other, closeFriendsCount(u) is the number of CloseFriend rows with ownerId = u.
C3_CloseFriendsCountMatchesEdges ==
    \A u \in Users : db.closeFriendsCount[u] = closeFriendsOf(db, u)

\* C4: under every interleaving of block and unblock requests, blockedCount(u)
\* is the number of Block rows with blockerId = u.
C4_BlockedCountMatchesEdges ==
    \A u \in Users : db.blockedCount[u] = blockedBy(db, u)

\* two unblock requests had both read the row; one deleted it, the other's
\* delete threw and its transaction was rolled back
C4_Witness ==
    /\ last.op = "unblock" /\ last.result = "P2025"
    /\ db.blocks = {} /\ db.blockedCount[last.actor] = 0
    /\ AllIdle

\* C5: when requests interleave at the awaits before their transactions, the
\* follower/following counters equal the Follower cardinalities once every
\* request has finished.
C5_CountersMatchAfterInterleaving ==
    AllIdle => \A u \in Users :
        /\ db.followingCount[u] = followingOf(db, u)
        /\ db.followersCount[u] = followersOf(db, u)

\* C6: when two follow(A,B) on a public B have both found no Follower row, both
\* end in a success outcome, one row exists and followingCount(A) and
\* followersCount(B) have been incremented once.
C6_LostFollowRaceSucceeds ==
    (/\ last.op = "follow" /\ last.actor # last.target /\ userExists(last.target)
     /\ ~last.pre.isPrivate[last.target]) =>
        /\ last.result \in {"followed", "already"}
        /\ <<last.actor, last.target>> \in db.follows
        /\ db.followingCount[last.actor] = followingOf(db, last.actor)
        /\ db.followersCount[last.target] = followersOf(db, last.target)

\* C7: for A # B with B existing and public, the first follow(A,B) creates the
\* one Follower row and increments followingCount(A) and followersCount(B) by
\* 1; a second follow(A,B) right after it succeeds and changes nothing, so the
\* two counters stay 1 above their values before the first call.
C7_FollowTwice ==
    [][(last'.op = "follow" /\ Follow(last'.actor, last'.target)) =>
         LET u == last'.actor
             t == last'.target
         IN /\ (u # t /\ userExists(t) /\ ~db.isPrivate[t] /\ <<u, t>> \notin db.follows) =>
                 /\ last'.result = "followed"
                 /\ db'.follows = db.follows \cup {<<u, t>>}
                 /\ db'.followingCount = [db.followingCount EXCEPT ![u] = @ + 1]
                 /\ db'.followersCount = [db.followersCount EXCEPT ![t] = @ + 1]
            /\ last = Call("follow", u, t, <<>>, "followed", last.pre) =>
                 /\ last'.result = "already"
                 /\ db' = db
                 /\ <<u, t>> \in db'.follows
                 /\ db'.followingCount[u] = last.pre.followingCount[u] + 1
                 /\ db'.followersCount[t] = last.pre.followersCount[t] + 1
      ]_vars

\* the second of two follow calls in a row has returned
C7_Witness ==
    /\ last.op = "follow" /\ last.result = "already"
    /\ db = last.pre
    /\ db.followingCount[last.actor] = 1 /\ db.followersCount[last.target] = 1

\* C8: follow(E,D) on an existing private D that E does not follow returns
\* "request created", leaves the request of the pair PENDING whatever it was
\* before, and changes no Follower row, no counter and nothing else.
C8_FollowPrivateCreatesRequest ==
    (/\ last.op = "follow" /\ last.actor # last.target /\ userExists(last.target)
     /\ last.pre.isPrivate[last.target]
     /\ <<last.actor, last.target>> \notin last.pre.follows) =>
        /\ last.result = "request_created"
        /\ db = [last.pre EXCEPT !.requests[<<last.actor, last.target>>] = "PENDING"]
        /\ db.follows = last.pre.follows
        /\ sameCounters(db, last.pre)

\* a follow on a private target has reset an ACCEPTED request to PENDING
C8_Witness ==
    /\ last.op = "follow" /\ last.result = "request_created"
    /\ last.pre.requests[<<last.actor, last.target>>] = "ACCEPTED"
    /\ db.requests[<<last.actor, last.target>>] = "PENDING"

\* C9: accept(target, requester) throws NotFound and changes nothing unless the
\* request of the pair is PENDING; when it is, the Follower row exists
\* afterwards, followingCount(requester) and followersCount(target) are each
\* 1 higher, and the request is ACCEPTED.
C9_Accept ==
    last.op = "accept" =>
        LET t == last.actor
            r == last.target
        IN IF requestStatus(last.pre, r, t) # "PENDING"
           THEN last.result = "NotFound" /\ db = last.pre
           ELSE /\ last.result = "accepted"
                /\ db.follows = last.pre.follows \cup {<<r, t>>}
                /\ db.followingCount = [last.pre.followingCount EXCEPT ![r] = @ + 1]
                /\ db.followersCount = [last.pre.followersCount EXCEPT ![t] = @ + 1]
                /\ db.requests = [last.pre.requests EXCEPT ![<<r, t>>] = "ACCEPTED"]

\* a PENDING request has been accepted
C9_Witness ==
    /\ last.op = "accept" /\ last.result = "accepted"
    /\ last.pre.requests[<<last.target, last.actor>>] = "PENDING"
    /\ db.followersCount[last.actor] = 1 /\ db.followingCount[last.target] = 1

\* C10: reject(target, requester) throws NotFound unless the request of the
\* pair is PENDING; when it is, the request becomes REJECTED and no Follower
\* row and no counter changes.
C10_Reject ==
    last.op = "reject" =>
        LET t == last.actor
            r == last.target
        IN IF requestStatus(last.pre, r, t) # "PENDING"
           THEN last.result = "NotFound" /\ db = last.pre
           ELSE /\ last.result = "rejected"
                /\ db.requests = [last.pre.requests EXCEPT ![<<r, t>>] = "REJECTED"]
                /\ db.follows = last.pre.follows
                /\ sameCounters(db, last.pre)

\* a PENDING request has been rejected
C10_Witness ==
    /\ last.op = "reject" /\ last.result = "rejected"
    /\ last.pre.requests[<<last.target, last.actor>>] = "PENDING"
    /\ db.requests[<<last.target, last.actor>>] = "REJECTED"

\* C11: cancel(requester, target) deletes the request of the pair exactly when
\* it is PENDING; with no request, or an ACCEPTED or REJECTED one, the call
\* succeeds and the store is as it was.
C11_Cancel ==
    last.op = "cancel" =>
        /\ last.result = "canceled"
        /\ IF requestStatus(last.pre, last.actor, last.target) = "PENDING"
           THEN db = [last.pre EXCEPT !.requests[<<last.actor, last.target>>] = "NONE"]
           ELSE db = last.pre

\* a cancel has found an ACCEPTED request of its pair and left it
C11_Witness ==
    /\ last.op = "cancel" /\ last.result = "canceled"
    /\ requestStatus(last.pre, last.actor, last.target) = "ACCEPTED"
    /\ requestStatus(db, last.actor, last.target) = "ACCEPTED"

\* C12: with requests served one after the other, a request that exists before
\* and after a step changes its status only PENDING -> ACCEPTED (by accept),
\* PENDING -> REJECTED (by reject) or ACCEPTED/REJECTED -> PENDING (by follow),
\* never from one of ACCEPTED, REJECTED to the other; a request that appears
\* is PENDING.
C12_StatusTransitions ==
    [][\A p \in Pairs :
         LET old == db.requests[p]
             new == db'.requests[p]
         IN (old # new /\ new # "NONE") =>
              \/ old = "PENDING" /\ new = "ACCEPTED" /\ last' = Call("accept", p[2], p[1], <<>>, "accepted", db)
              \/ old = "PENDING" /\ new = "REJECTED" /\ last' = Call("reject", p[2], p[1], <<>>, "rejected", db)
              \/ old \in {"NONE", "ACCEPTED", "REJECTED"} /\ new = "PENDING"
                  /\ last' = Call("follow", p[1], p[2], <<>>, "request_created", db)
      ]_vars

\* a REJECTED request has been restarted at PENDING by a follow
C12_Witness ==
    /\ last.op = "follow" /\ last.result = "request_created"
    /\ last.pre.requests[<<last.actor, last.target>>] = "REJECTED"
    /\ db.requests[<<last.actor, last.target>>] = "PENDING"

\* C13: unfollow(A,B) with no Follower row (A,B) throws BadRequest and changes
\* nothing; with the row, the row is deleted and followingCount(A) and
\* followersCount(B) are each 1 lower, and nothing else changes.
C13_Unfollow ==
    last.op = "unfollow" =>
        LET a == last.actor
            b == last.target
        IN IF <<a, b>> \notin last.pre.follows
           THEN last.result = "BadRequest" /\ db = last.pre
           ELSE /\ last.result = "unfollowed"
                /\ db = [last.pre EXCEPT !.follows = @ \ {<<a, b>>},
                                         !.followingCount[a] = @ - 1,
                                         !.followersCount[b] = @ - 1]

\* an unfollow has removed one side of a mutual follow
C13_Witness ==
    /\ last.op = "unfollow" /\ last.result = "unfollowed"
    /\ last.pre.follows = {<<1, 2>>, <<2, 1>>}
    /\ db.follows = {<<last.target, last.actor>>}

\* C14: block(A,B) with no Block row (A,B) creates it, increments
\* blockedCount(A) by 1, removes the Follower rows (A,B) and (B,A) that exist
\* and decrements exactly the counters of the rows removed.
C14_BlockCascade ==
    (/\ last.op = "block" /\ last.actor # last.target /\ userExists(last.target)
     /\ <<last.actor, last.target>> \notin last.pre.blocks) =>
        LET a == last.actor
            b == last.target
            n1 == IF <<a, b>> \in last.pre.follows THEN 1 ELSE 0
            n2 == IF <<b, a>> \in last.pre.follows THEN 1 ELSE 0
        IN /\ last.result = "blocked"
           /\ db.blocks = last.pre.blocks \cup {<<a, b>>}
           /\ db.blockedCount = [last.pre.blockedCount EXCEPT ![a] = @ + 1]
           /\ db.follows = last.pre.follows \ {<<a, b>>, <<b, a>>}
           /\ db.followingCount = [last.pre.followingCount EXCEPT ![a] = @ - n1, ![b] = @ - n2]
           /\ db.followersCount = [last.pre.followersCount EXCEPT ![b] = @ - n1, ![a] = @ - n2]

\* a block has removed a mutual follow
C14_Witness ==
    /\ last.op = "block" /\ last.result = "blocked"
    /\ last.pre.follows = {<<1, 2>>, <<2, 1>>}
    /\ db.follows = {}
    /\ \A u \in Users : db.followingCount[u] = 0 /\ db.followersCount[u] = 0
    /\ db.blockedCount[last.actor] = 1

\* C15: when block(A,B) returns successfully, no Follower row, no request and
\* no CloseFriend row joins A and B in either direction.
C15_NothingAcrossBlockOnReturn ==
    (last.op = "block" /\ last.result = "blocked") =>
        LET between == {<<last.actor, last.target>>, <<last.target, last.actor>>}
        IN /\ db.follows \cap between = {}
           /\ db.closeFriends \cap between = {}
           /\ \A p \in between : db.requests[p] = "NONE"

\* C17: unblock(A,B) with the Block row (A,B) deletes it, decrements
\* blockedCount(A) by 1 and returns removed = true; without the row it returns
\* removed = false and changes nothing.
C17_Unblock ==
    last.op = "unblock" =>
        LET a == last.actor
            b == last.target
        IN IF <<a, b>> \in last.pre.blocks
           THEN /\ last.result = "removed"
                /\ db = [last.pre EXCEPT !.blocks = @ \ {<<a, b>>},
                                         !.blockedCount[a] = @ - 1]
           ELSE last.result = "not_removed" /\ db = last.pre

\* an unblock repeated right after the unblock that removed the row
C17_Witness ==
    /\ last.op = "unblock" /\ last.result = "not_removed"
    /\ db = last.pre
    /\ <<last.actor, last.target>> \notin db.blocks
    /\ db.blockedCount[last.actor] = 0
    /\ db.follows # {}

\* C16: a block(A,B) that finds the Block row (A,B) in place, the loser of
\* two blocks in flight together included, returns the existing row without
\* error and writes nothing: one row, blockedCount(A) counted once.
C16_BlockAgain ==
    (/\ last.op = "block" /\ last.actor # last.target /\ userExists(last.target)
     /\ <<last.actor, last.target>> \in last.pre.blocks) =>
        /\ last.result = "blocked"
        /\ db = last.pre
        /\ db.blockedCount[last.actor] = blockedBy(db, last.actor)

\* two blocks of one pair lost to a third: one has returned the existing row,
\* the other is still in its catch
C16_Witness ==
    /\ last.op = "block" /\ last.result = "blocked"
    /\ db = last.pre
    /\ db.blocks = {<<last.actor, last.target>>}
    /\ db.blockedCount[last.actor] = 1
    /\ \E p \in Procs : /\ procs[p].pc = "block_catch"
                        /\ procs[p].actor = last.actor
                        /\ procs[p].target = last.target

\* C18: every unblock, two unblocks of one pair that both read the row before
\* either deletes it included, finishes without error, with the row gone and
\* blockedCount equal to the rows left.
C18_ConcurrentUnblock ==
    last.op = "unblock" =>
        /\ last.result \in {"removed", "not_removed"}
        /\ <<last.actor, last.target>> \notin db.blocks
        /\ db.blockedCount[last.actor] = blockedBy(db, last.actor)

\* C19: in every state reached by follow, unfollow, accept, block, unblock,
\* AddCloseFriends and RemoveCloseFriends, in sequence or interleaved, the four
\* counters of every user are at least 0.
C19_CountersNonNegative ==
    \A u \in Users :
        /\ db.followersCount[u] >= 0
        /\ db.followingCount[u] >= 0
        /\ db.blockedCount[u] >= 0
        /\ db.closeFriendsCount[u] >= 0

\* the second of two unblocks in flight together has failed on the missing row
\* and the counters are at 0, where a second decrement would have gone below
C19_Witness ==
    /\ last.op = "unblock" /\ last.result = "P2025"
    /\ db = last.pre
    /\ \A u \in Users : db.blockedCount[u] = 0 /\ db.closeFriendsCount[u] = 0
    /\ \A u \in Users : db.followersCount[u] = 0 /\ db.followingCount[u] = 0

\* C20: AddCloseFriends(owner, ids) that goes through inserts the row
\* (owner, x) exactly for the x of ids that are not the owner, are users and
\* are not close friends of owner yet, each once however often x is listed;
\* the created count it returns and the increase of closeFriendsCount(owner)
\* both equal the number of rows inserted. A call that throws writes nothing.
C20_AddCloseFriends ==
    last.op = "addCloseFriends" =>
        LET owner == last.actor
            asked == {x \in Users : x # owner /\ \E i \in DOMAIN last.ids : last.ids[i] = x}
            inserted == {<<owner, x>> : x \in asked} \ last.pre.closeFriends
        IN IF last.result = "ok"
           THEN /\ asked # {}
                /\ db = [last.pre EXCEPT !.closeFriends = @ \cup inserted,
                                         !.closeFriendsCount[owner] = @ + Cardinality(inserted)]
                /\ last.count = Cardinality(inserted)
           ELSE asked = {} /\ db = last.pre /\ last.count = 0

\* ids = [x, 0, x, owner] where x is a user and 0 is not: one row, created = 1
C20_Witness ==
    /\ last.op = "addCloseFriends" /\ last.result = "ok"
    /\ Len(last.ids) = 4 /\ last.ids[1] = last.ids[3] /\ last.ids[4] = last.actor
    /\ ~userExists(last.ids[2])
    /\ last.count = 1
    /\ db.closeFriends = last.pre.closeFriends \cup {<<last.actor, last.ids[1]>>}
    /\ db.closeFriendsCount[last.actor] = last.pre.closeFriendsCount[last.actor] + 1

\* the ids of a bulk close-friends call that are left after dropping repeats,
\* the owner and the ids of no user
effectiveIds(ownerId, ids) == {x \in Users : x # ownerId /\ \E i \in DOMAIN ids : ids[i] = x}

\* C21 as stated: AddCloseFriends whose effective id set is empty (empty
\* input, only the owner, only ids of no user) fails with InvalidOperation
\* and changes nothing.
C21_EmptyAddIsInvalidOperation ==
    (last.op = "addCloseFriends" /\ effectiveIds(last.actor, last.ids) = {}) =>
        last.result = "BadRequest" /\ db = last.pre

\* C21 amended: AddCloseFriends whose effective id set is empty changes
\* nothing and fails: with InvalidOperation for an empty input and for an
\* input of only the owner, with NotFound for an input whose other ids name
\* no user.
C21_EmptyAddFails ==
    (last.op = "addCloseFriends" /\ effectiveIds(last.actor, last.ids) = {}) =>
        /\ db = last.pre
        /\ last.count = 0
        /\ last.result = IF \A i \in DOMAIN last.ids : last.ids[i] = last.actor
                         THEN "BadRequest" ELSE "NotFound"

\* an add of only the id of no user has failed with NotFound and left the
\* owner's close friends as they were
C21_Witness ==
    /\ last.op = "addCloseFriends" /\ last.result = "NotFound"
    /\ Len(last.ids) = 1 /\ ~userExists(last.ids[1])
    /\ db = last.pre
    /\ closeFriendsOf(db, last.actor) = 1
    /\ db.closeFriendsCount[last.actor] = 1

\* C22 as stated: RemoveCloseFriends(owner, ids) never fails: it deletes the
\* rows (owner, x) that exist for x in ids, returns their number and
\* decrements closeFriendsCount(owner) by it, an empty id list included.
C22_RemoveNeverFails ==
    last.op = "removeCloseFriends" =>
        LET owner == last.actor
            gone == {<<owner, x>> : x \in effectiveIds(owner, last.ids)} \cap last.pre.closeFriends
        IN /\ last.result = "ok"
           /\ last.count = Cardinality(gone)
           /\ db = [last.pre EXCEPT !.closeFriends = @ \ gone,
                                    !.closeFriendsCount[owner] = @ - Cardinality(gone)]

\* C22 amended: RemoveCloseFriends(owner, ids) with a non-empty id list
\* deletes the rows (owner, x) that exist for x in ids, returns their number
\* and decrements closeFriendsCount(owner) by it (0 rows: removed = 0, no
\* change, no failure); with an empty id list it fails with InvalidOperation
\* and changes nothing.
C22_Remove ==
    last.op = "removeCloseFriends" =>
        LET owner == last.actor
            gone == {<<owner, x>> : x \in effectiveIds(owner, last.ids)} \cap last.pre.closeFriends
        IN IF Len(last.ids) = 0
           THEN last.result = "BadRequest" /\ db = last.pre /\ last.count = 0
           ELSE /\ last.result = "ok"
                /\ last.count = Cardinality(gone)
                /\ db = [last.pre EXCEPT !.closeFriends = @ \ gone,
                                         !.closeFriendsCount[owner] = @ - Cardinality(gone)]

\* a remove has deleted the one close friend of its owner
C22_Witness ==
    /\ last.op = "removeCloseFriends" /\ last.result = "ok" /\ last.count = 1
    /\ closeFriendsOf(last.pre, last.actor) = 1
    /\ last.pre.closeFriendsCount[last.actor] = 1
    /\ closeFriendsOf(db, last.actor) = 0
    /\ db.closeFriendsCount[last.actor] = 0

\* C26: a user who lists their own followers, following or publications
\* through the listings addressed at a target is never denied, private or not.
C26_SelfViewNeverDenied ==
    (/\ last.op \in {"listFollowers", "listFollowing", "listPublications"}
     /\ last.actor = last.target) =>
        last.result # "Forbidden"

\* C27: a listing of followers, following or publications of a target that
\* blocks the viewer returns an empty page without error, whatever the
\* target's privacy and edges.
C27_BlockedViewerGetsEmptyPage ==
    (/\ last.op \in {"listFollowers", "listFollowing", "listPublications"}
     /\ <<last.target, last.actor>> \in last.pre.blocks) =>
        \/ last.result = "empty"
        \/ last.result = "ok" /\ last.count = 0

\* C28: the listing of followers or following of a private target is denied
\* to a viewer who holds no Follower row to the target and is not denied to a
\* viewer who does.
C28_PrivateListingNeedsFollow ==
    (/\ last.op \in {"listFollowers", "listFollowing"}
     /\ userExists(last.target) /\ last.pre.isPrivate[last.target]) =>
        IF <<last.actor, last.target>> \in last.pre.follows
        THEN last.result # "Forbidden"
        ELSE last.result = "Forbidden"

C24_PageShape ==
    (pager.call.op # "none" /\ pager.call.page.result = "ok") =>
        LET c == pager.call
            items == c.page.items
            L == clampTake(c.limit)
        IN /\ Len(items) <= L
           /\ Range(items) \subseteq matching(c.rows, c.user)
           /\ \A i \in 1..Len(items) - 1 : items[i] > items[i + 1]
           /\ c.cursor # 0 => \A i \in 1..Len(items) : items[i] < c.cursor
           /\ c.page.nextCursor = IF Len(items) = L THEN items[Len(items)] ELSE 0

\* C25: the number of items of a page, the caller's own followers included, is
\* at most the requested limit clamped to 1..100 (20 for no limit or 0).
C25_PageBoundedByClampedLimit ==
    (pager.call.op # "none" /\ pager.call.page.result = "ok") =>
        Len(pager.call.page.items) <= clampTake(pager.call.limit)

\* the outcomes that are failures: the exceptions of the services and the
\* constraint errors of the store
Failures == {"BadRequest", "NotFound", "P2002", "P2025"}

\* C29: a request that ends in a failure (NotFound, InvalidOperation, a
\* constraint violation, a transaction aborted at one of its statements)
\* leaves edges, requests and counters exactly as its last step found them.
C29_FailureChangesNothing ==
    last.result \in Failures => db = last.pre

\* an accept whose request was removed by a block between its lookup and its
\* transaction has failed at the last statement of the transaction
C29_Witness ==
    /\ last.op = "accept" /\ last.result = "P2025"
    /\ db = last.pre
    /\ <<last.actor, last.target>> \in db.blocks
    /\ db.follows = {}
    /\ \A u \in Users : db.followersCount[u] = 0 /\ db.followingCount[u] = 0

\* C30: follow(actor, actor) fails with InvalidOperation and follow of a user
\* that does not exist with NotFound, both without writing anything; no
\* Follower row and no request joins a user to themselves in any state.
C30_NoSelfRelation ==
    /\ (last.op = "follow" /\ last.actor = last.target) =>
            last.result = "BadRequest" /\ db = last.pre
    /\ (last.op = "follow" /\ last.actor # last.target /\ ~userExists(last.target)) =>
            last.result = "NotFound" /\ db = last.pre
    /\ \A u \in Users : <<u, u>> \notin db.follows /\ db.requests[<<u, u>>] = "NONE"

\* a private user has tried to follow themselves after accepting a follower
C30_Witness ==
    /\ last.op = "follow" /\ last.actor = last.target /\ last.result = "BadRequest"
    /\ db.isPrivate[last.actor]
    /\ followersOf(db, last.actor) = 1
    /\ \E u \in Users : db.requests[<<u, last.actor>>] = "ACCEPTED"

\* C31: block(actor, target) throws BadRequest (InvalidOperation) when the target
\* is the actor and NotFound when the target does not exist; either way the store
\* is left as it was (no Block row, blockedCount unchanged), and no state has a
\* Block row whose blocker is its blocked user.
C31_BlockGuards ==
    /\ \A u \in Users : <<u, u>> \notin db.blocks
    /\ last.op = "block" =>
          /\ last.actor = last.target => last.result = "BadRequest" /\ db = last.pre
          /\ ~userExists(last.target) => last.result = "NotFound" /\ db = last.pre
          /\ last.result \in {"BadRequest", "NotFound"} =>
                /\ db.blocks = last.pre.blocks
                /\ db.blockedCount = last.pre.blockedCount

\* a caller who already blocks someone tries to block themselves
C31_Witness ==
    /\ last.op = "block"
    /\ last.actor = last.target
    /\ last.result = "BadRequest"
    /\ blockedBy(db, last.actor) = 1

\* C32: follows of different followers in flight together do not interfere. A
\* follow that has found its target public and no Follower row of its own still
\* finds none when it writes; every follow of an existing public target other
\* than the caller ends in success with its row present; and followersCount and
\* followingCount equal the number of rows in every state, so two followers of
\* one target leave its followersCount 2 above where it started.
C32_DisjointFollowsIndependent ==
    /\ \A a \in Users : /\ db.followersCount[a] = followersOf(db, a)
                        /\ db.followingCount[a] = followingOf(db, a)
    /\ \A p \in Procs : (procs[p].pc = "follow_write" /\ ~procs[p].flag) =>
                            <<procs[p].actor, procs[p].target>> \notin db.follows
    /\ (/\ last.op = "follow" /\ last.actor # last.target /\ userExists(last.target)
        /\ ~last.pre.isPrivate[last.target]) =>
           /\ last.result \in {"followed", "already"}
           /\ <<last.actor, last.target>> \in db.follows

\* two followers of one public target, each on its own process, have both
\* committed: the second found followersCount at 1 and left it at 2
C32_Witness ==
    /\ last.op = "follow" /\ last.result = "followed"
    /\ \E b \in Users \ {last.actor, last.target} :
          /\ <<b, last.target>> \in last.pre.follows
          /\ last.pre.followersCount[last.target] = 1
    /\ db.followersCount[last.target] = 2
    /\ quota = MaxOps - 2
    /\ AllIdle

\* C33: no pair has a PENDING FollowRequest and a Follower row at once, whether
\* the requests run one at a time (togglePrivacy among them) or a follow is in
\* flight together with a togglePrivacy of its target or with another follow of
\* the same pair.
C33_NoPendingRequestWithEdge ==
    \A pr \in Pairs : ~(db.requests[pr] = "PENDING" /\ pr \in db.follows)

\* C34: when the row whose id is the caller's cursor has been deleted before
\* the page is asked for, the page still begins with the highest remaining row
\* of the listing below the cursor and runs down from there without a gap, so
\* it is empty only when no such row is left.
C34_DeletedCursorRowStillPages ==
    LET c == pager.call
        below == matchingDesc(c.rows, c.user, c.cursor - 1)
    IN (/\ c.op # "none" /\ c.page.result = "ok"
        /\ c.cursor # 0 /\ ~rowExists(c.rows, c.cursor)) =>
           /\ Len(c.page.items) <= Len(below)
           /\ c.page.items = firstRows(below, Len(c.page.items))
           /\ below # <<>> => c.page.items # <<>>

\* C35: over a table that does not change, a traversal of getFollowersOfUser
\* with effective limit L over n rows ends: each nextCursor is below the cursor
\* of its request, and nextCursor is null after at most ceil(n / L) + 1
\* requests. When n is a positive multiple of L, request n / L returns a full
\* page with a nextCursor, and one more request returns an empty page with
\* nextCursor null.
C35_TraversalEnds ==
    LET t == pager.trav
        c == pager.call
        n == Cardinality(t.start)
        L == clampTake(t.limit)
        most == (n + L - 1) \div L + 1
    IN (t.op = "getFollowersOfUser" /\ t.state \in {"open", "done"}) =>
          /\ t.pages <= most
          /\ t.pages = most => t.state = "done"
          /\ (c.page.nextCursor # 0 /\ c.cursor # 0) => c.page.nextCursor < c.cursor
          /\ (n > 0 /\ n % L = 0) =>
                /\ t.pages = n \div L => (t.state = "open" /\ Len(c.page.items) = L)
                /\ t.state = "done" => (t.pages = n \div L + 1 /\ c.page.items = <<>>)

\* two rows read in pages of one: the third request came back empty
C35_Witness ==
    LET t == pager.trav
    IN /\ t.op = "getFollowersOfUser" /\ t.state = "done"
       /\ Cardinality(t.start) = 2 /\ clampTake(t.limit) = 1
       /\ t.pages = 3
       /\ Len(t.seen) = 2
       /\ pager.call.page.items = <<>>

\* C36: a non-empty page of the caller's own getFollowers (limit + 1 rows
\* read) has a nextCursor, the id of its last item, exactly when the table at
\* the time of the query holds a row of the listing below that item; so every
\* page of a traversal after the first holds an item.
C36_NextCursorIffMore ==
    LET c == pager.call
        t == pager.trav
        items == c.page.items
    IN (c.op = "getFollowers" /\ c.page.result = "ok") =>
          /\ items # <<>> =>
                LET lastId == items[Len(items)]
                    more == \E i \in matching(c.rows, c.user) : i < lastId
                IN /\ c.page.nextCursor # 0 <=> more
                   /\ c.page.nextCursor \in {0, lastId}
          /\ items = <<>> => c.page.nextCursor = 0
          /\ (t.op = "getFollowers" /\ t.pages > 1) => items # <<>>

\* two rows read in pages of one: the second page holds the last row and has
\* no nextCursor, and no third request is made
C36_Witness ==
    LET t == pager.trav
    IN /\ t.op = "getFollowers" /\ t.state = "done"
       /\ t.limit = 1 /\ t.pages = 2
       /\ Cardinality(t.start) = 2 /\ Len(t.seen) = 2
       /\ pager.call.page.items # <<>>

\* C37: the close-friends listing of an owner returns exactly the users x with
\* a CloseFriend row (owner, x): a followed user who is no close friend is not
\* in it, a close friend the owner does not follow is.
C37_ListsCloseFriendEdges ==
    last.op = "listCloseFriends" =>
        Range(last.ids) = {e[2] : e \in {f \in db.closeFriends : f[1] = last.actor}}

\* the rows and the request of the pair e, and the counters of user c, are the
\* same in d and d0
samePair(d, d0, e) ==
    /\ e \in d.follows <=> e \in d0.follows
    /\ e \in d.blocks <=> e \in d0.blocks
    /\ e \in d.closeFriends <=> e \in d0.closeFriends
    /\ d.requests[e] = d0.requests[e]
sameUser(d, d0, c) ==
    /\ d.followersCount[c] = d0.followersCount[c]
    /\ d.followingCount[c] = d0.followingCount[c]
    /\ d.blockedCount[c] = d0.blockedCount[c]
    /\ d.closeFriendsCount[c] = d0.closeFriendsCount[c]

\* C38: block(A,B) creates no Block row (B,A), leaves blockedCount(B) as it
\* was, and leaves every row, request and counter of a user other than A and B
\* as it was. unfollow(A,B) changes at most the Follower row (A,B),
\* followingCount(A) and followersCount(B): the row (B,A), every request, Block
\* row and CloseFriend row and the other counters stay.
C38_BlockAndUnfollowAreLocal ==
    LET a == last.actor
        b == last.target
        pre == last.pre
    IN /\ last.op = "block" =>
            /\ <<b, a>> \in db.blocks <=> <<b, a>> \in pre.blocks
            /\ userExists(b) /\ b # a => db.blockedCount[b] = pre.blockedCount[b]
            /\ \A e \in Pairs : (e[1] \notin {a, b} \/ e[2] \notin {a, b}) => samePair(db, pre, e)
            /\ \A c \in Users \ {a, b} : sameUser(db, pre, c)
       /\ last.op = "unfollow" =>
            /\ db.follows \ {<<a, b>>} = pre.follows \ {<<a, b>>}
            /\ db.requests = pre.requests
            /\ db.blocks = pre.blocks
            /\ db.closeFriends = pre.closeFriends
            /\ db.closeFriendsCount = pre.closeFriendsCount
            /\ db.blockedCount = pre.blockedCount
            /\ \A c \in Users \ {a} : db.followingCount[c] = pre.followingCount[c]
            /\ \A c \in Users \ {b} : db.followersCount[c] = pre.followersCount[c]

\* a caller who follows a third user and is followed back by the other caller
\* blocks that caller: the row to the third user is still there
C38_Witness ==
    /\ last.op = "block" /\ last.result = "blocked"
    /\ \E c \in Users \ {last.actor, last.target} :
          /\ <<last.actor, c>> \in db.follows
          /\ db.followersCount[c] = 1
    /\ <<last.target, last.actor>> \in last.pre.follows
    /\ <<last.target, last.actor>> \notin db.follows

\* C39: a togglePrivacy(u) that returns has negated u's isPrivate as the store
\* held it and changed nothing else (no Follower row, request, Block row,
\* CloseFriend row or counter; a PENDING request stays PENDING), so two calls
\* leave the flag where it was, one after the other or in flight together.
C39_ToggleFlipsOnlyFlag ==
    last.op = "togglePrivacy" =>
        db = [last.pre EXCEPT !.isPrivate[last.actor] = ~@]

\* the ids of the rows of the FollowRequest table that are PENDING and have
\* user u on the given side (1 requester, 2 target)
pendingIds(side, u) ==
    {i \in 1..Len(pager.requests) :
        /\ pager.requests[i] # NoRow
        /\ pager.requests[i][side] = u
        /\ db.requests[pager.requests[i]] = "PENDING"}

\* C40: the incoming and the outgoing listing of u return the requests of u
\* that are PENDING when asked and no other: no accepted, rejected, cancelled
\* request and none deleted by a block or a direct follow. A request that a
\* fresh follow sets back to PENDING keeps the id of its row.
C40_ListingsShowPendingOnly ==
    /\ [](/\ last.op = "listIncoming" => Range(last.ids) = pendingIds(2, last.actor)
          /\ last.op = "listOutgoing" => Range(last.ids) = pendingIds(1, last.actor)
          /\ \A i \in Range(last.ids) \cap 1..Len(pager.requests) :
                last.op \in {"listIncoming", "listOutgoing"} =>
                    db.requests[pager.requests[i]] \notin {"ACCEPTED", "REJECTED", "NONE"})
    /\ [][\A e \in Pairs :
            (db.requests[e] \in {"ACCEPTED", "REJECTED"} /\ db'.requests[e] = "PENDING") =>
                /\ requestId(pager.requests, e) # 0
                /\ requestId(pager'.requests, e) = requestId(pager.requests, e)]_vars

\* the incoming listing of a user who has rejected the one request addressed
\* to them is empty
C40_Witness ==
    /\ last.op = "listIncoming"
    /\ last.ids = <<>>
    /\ \E i \in 1..Len(pager.requests) :
          /\ pager.requests[i] # NoRow
          /\ pager.requests[i][2] = last.actor
          /\ db.requests[pager.requests[i]] = "REJECTED"

====
